---------------------------- MODULE Spec2Model ----------------------------
(***************************************************************************)
(* prom (PROfile Memory): a signal-triggered dump of the process's object  *)
(* graph to a pickle file, and an offline report of such a file.           *)
(*                                                                         *)
(* The model follows src/prom/__init__.py.  The main thread runs the       *)
(* library calls; PromDumpFile.write is split at the points where Python   *)
(* can run a signal handler between its statements (after the existence    *)
(* check, after gather, after open).  A signal handler runs to completion  *)
(* on the main thread before the interrupted code continues, so a signal   *)
(* delivery is one step.                                                   *)
(*                                                                         *)
(* Optional values (Python's None) are sequences of length 0 or 1.         *)
(***************************************************************************)
EXTENDS Integers, Sequences, FiniteSets, TLC

(***************************************************************************)
(* Bounds of the model.                                                    *)
(***************************************************************************)
\* time.time() takes the values 0..MaxClock
MaxClock == 1

(***************************************************************************)
(* Program constants.                                                      *)
(***************************************************************************)
SIGUSR1 == 10
SIGUSR2 == 12
SIG_DEFAULT == SIGUSR1
Signals == {SIGUSR1, SIGUSR2}
\* signal.SIG_DFL: no Python handler is bound
SIG_DFL == << >>
PATH_DEFAULT == "/tmp"
\* '%(name)s-%(pid)i-%(ts)s.prom', as its literal and conversion parts
FILE_NAME_TEMPLATE == <<"%(name)s", "-", "%(pid)i", "-", "%(ts)s", ".prom">>
\* a template that does not vary per trigger
FixedTemplate == <<"dump.prom">>
\* a template naming a key that get_process_info() does not supply
BadTemplate == <<"%(host)s", ".prom">>
Templates == {FILE_NAME_TEMPLATE, FixedTemplate, BadTemplate}
\* os.getpid() and sys.argv[0] of the modelled process
Pid == 4242
Argv0 == "app"

None == << >>
Some(x) == <<x>>
Get(o) == o[1]

(***************************************************************************)
(* The heap the collector tracks.  An object has an identity, the result   *)
(* of str() on it (or str() raises), a shallow size, and the identities of *)
(* its referents and referrers; these may name objects the collector does  *)
(* not track (identities 900 and above), which get no node.                *)
(***************************************************************************)
Obj(i, d, r, s, out, in) ==
    [id |-> i, desc |-> d, raises |-> r, size |-> s, referents |-> out, referrers |-> in]

Heaps ==
    << \* 1: a list held by a dict; the list refers to an untracked int
       << Obj(101, "[7]", FALSE, 64, <<900>>, <<102>>),
          Obj(102, "{'k': [7]}", FALSE, 232, <<101>>, << >>) >>,
       \* 2: the same, and between them an object whose __str__ raises
       << Obj(101, "[7]", FALSE, 64, <<900>>, <<102>>),
          Obj(103, "", TRUE, 48, << >>, << >>),
          Obj(102, "{'k': [7]}", FALSE, 232, <<101>>, << >>) >>,
       \* 3: the list has grown and an object that refers to itself holds it
       << Obj(101, "[7, 8]", FALSE, 72, <<900, 901>>, <<102, 104>>),
          Obj(104, "<A>", FALSE, 48, <<101, 104>>, <<104>>) >> >>
HeapIds == 1..Len(Heaps)

\* gc.get_stats(): one record per generation, in generation order
GcStats(h) ==
    [g \in 1..3 |-> [collections |-> h + g, collected |-> 0, uncollectable |-> 0]]

(***************************************************************************)
(* pickle.  A file is a sequence of opcodes; dump writes the opcodes of    *)
(* (stats, graph) and load runs them on the unpickler's stack machine.     *)
(***************************************************************************)
Tok(op, n, s) == [op |-> op, n |-> n, s |-> s]
Op(op) == Tok(op, 0, "")

RECURSIVE Flatten(_)
Flatten(ss) == IF ss = << >> THEN << >> ELSE Head(ss) \o Flatten(Tail(ss))

EncInt(n) == << Tok("BININT", n, "") >>
EncStr(s) == << Tok("BINUNICODE", 0, s) >>
EncIntList(l) ==
    IF l = << >> THEN << Op("EMPTY_LIST") >>
    ELSE << Op("EMPTY_LIST"), Op("MARK") >>
         \o Flatten([i \in 1..Len(l) |-> EncInt(l[i])]) \o << Op("APPENDS") >>
\* a graph node: the 4-tuple built by gather
EncNode(node) ==
    << Op("MARK") >> \o EncStr(node[1]) \o EncInt(node[2])
       \o EncIntList(node[3]) \o EncIntList(node[4]) \o << Op("TUPLE") >>
\* a dict of identity -> node, in the dict's iteration order
EncGraph(g) ==
    IF g = << >> THEN << Op("EMPTY_DICT") >>
    ELSE << Op("EMPTY_DICT"), Op("MARK") >>
         \o Flatten([i \in 1..Len(g) |-> EncInt(g[i].id) \o EncNode(g[i].node)])
         \o << Op("SETITEMS") >>
EncGen(r) ==
    << Op("EMPTY_DICT"), Op("MARK") >>
       \o EncStr("collections") \o EncInt(r.collections)
       \o EncStr("collected") \o EncInt(r.collected)
       \o EncStr("uncollectable") \o EncInt(r.uncollectable)
       \o << Op("SETITEMS") >>
EncStats(st) ==
    IF st = << >> THEN << Op("EMPTY_LIST") >>
    ELSE << Op("EMPTY_LIST"), Op("MARK") >>
         \o Flatten([i \in 1..Len(st) |-> EncGen(st[i])]) \o << Op("APPENDS") >>
\* pickle.dumps((stats, graph))
Dumps(stats, graph) ==
    << Op("PROTO") >>
       \o (IF stats = None THEN << Op("NONE") >> ELSE EncStats(Get(stats)))
       \o (IF graph = None THEN << Op("NONE") >> ELSE EncGraph(Get(graph)))
       \o << Op("TUPLE2"), Op("STOP") >>

\* Values on the unpickler's stack
V(t, n, s, items) == [t |-> t, n |-> n, s |-> s, items |-> items]
VMark == V("mark", 0, "", << >>)
Corrupt == V("corrupt", 0, "", << >>)

RECURSIVE MarkAt(_, _)
\* index of the topmost mark of the stack, 0 when there is none
MarkAt(stack, i) ==
    IF i = 0 THEN 0 ELSE IF stack[i].t = "mark" THEN i ELSE MarkAt(stack, i - 1)

RECURSIVE SetItems(_, _)
\* d[k] = v for each key, value pair of kvs, on a dict held as <<k, v, k, v...>>
SetItems(items, kvs) ==
    IF Len(kvs) < 2 THEN items
    ELSE LET k == kvs[1]
             v == kvs[2]
             hit == {i \in 1..Len(items) : i % 2 = 1 /\ items[i] = k}
             next == IF hit = {} THEN items \o <<k, v>>
                     ELSE [i \in 1..Len(items) |-> IF i - 1 \in hit THEN v ELSE items[i]]
         IN SetItems(next, SubSeq(kvs, 3, Len(kvs)))

RECURSIVE Unpickle(_, _)
\* The unpickler: the value on the stack at STOP; Corrupt when the opcodes end
\* before STOP or an opcode finds the stack it needs missing.
Unpickle(toks, stack) ==
    IF toks = << >> THEN Corrupt
    ELSE LET t == Head(toks)
             rest == Tail(toks)
             n == Len(stack)
             m == MarkAt(stack, n)
             above == SubSeq(stack, m + 1, n)
         IN CASE t.op = "PROTO" -> Unpickle(rest, stack)
              [] t.op = "STOP" -> IF n = 1 THEN stack[1] ELSE Corrupt
              [] t.op = "NONE" -> Unpickle(rest, Append(stack, V("none", 0, "", << >>)))
              [] t.op = "BININT" -> Unpickle(rest, Append(stack, V("int", t.n, "", << >>)))
              [] t.op = "BINUNICODE" -> Unpickle(rest, Append(stack, V("str", 0, t.s, << >>)))
              [] t.op = "EMPTY_LIST" -> Unpickle(rest, Append(stack, V("list", 0, "", << >>)))
              [] t.op = "EMPTY_DICT" -> Unpickle(rest, Append(stack, V("dict", 0, "", << >>)))
              [] t.op = "MARK" -> Unpickle(rest, Append(stack, VMark))
              [] t.op = "TUPLE" ->
                    IF m = 0 THEN Corrupt
                    ELSE Unpickle(rest, Append(SubSeq(stack, 1, m - 1), V("tuple", 0, "", above)))
              [] t.op = "TUPLE2" ->
                    IF n < 2 THEN Corrupt
                    ELSE Unpickle(rest, Append(SubSeq(stack, 1, n - 2),
                                               V("tuple", 0, "", SubSeq(stack, n - 1, n))))
              [] t.op = "APPENDS" ->
                    IF m < 2 \/ stack[m - 1].t # "list" THEN Corrupt
                    ELSE Unpickle(rest, Append(SubSeq(stack, 1, m - 2),
                                               V("list", 0, "", stack[m - 1].items \o above)))
              [] t.op = "SETITEMS" ->
                    IF m < 2 \/ stack[m - 1].t # "dict" THEN Corrupt
                    ELSE Unpickle(rest, Append(SubSeq(stack, 1, m - 2),
                                               V("dict", 0, "", SetItems(stack[m - 1].items, above))))
              [] OTHER -> Corrupt

\* The Python objects the unpickled values stand for
IntsOf(v) == [i \in 1..Len(v.items) |-> v.items[i].n]
NodeOf(v) == << v.items[1].s, v.items[2].n, IntsOf(v.items[3]), IntsOf(v.items[4]) >>
GraphOf(v) ==
    [i \in 1..(Len(v.items) \div 2) |->
        [id |-> v.items[2 * i - 1].n, node |-> NodeOf(v.items[2 * i])]]
GenOf(v) ==
    [collections |-> v.items[2].n, collected |-> v.items[4].n, uncollectable |-> v.items[6].n]
StatsOf(v) == [i \in 1..Len(v.items) |-> GenOf(v.items[i])]

\* pickle.loads(data): Corrupt, or the pair <<stats, graph>>
Loads(data) ==
    LET v == Unpickle(data, << >>)
    IN IF v.t # "tuple" \/ Len(v.items) # 2 THEN Corrupt
       ELSE << IF v.items[1].t = "none" THEN None ELSE Some(StatsOf(v.items[1])),
               IF v.items[2].t = "none" THEN None ELSE Some(GraphOf(v.items[2])) >>
IsCorrupt(data) == Unpickle(data, << >>).t # "tuple"

(***************************************************************************)
(* State.                                                                  *)
(***************************************************************************)
VARIABLES
    now,            \* time.time()
    heap,           \* which of Heaps the collector tracks now
    has_get_stats,  \* whether the runtime has gc.get_stats (Python 3.4+)
    disp,           \* the signal disposition table: SIG_DFL or Some(PromDump)
    lastcall,       \* per signal, the last of install/uninstall called for it
    fs,             \* the file system: path -> the opcodes the file holds
    stored,         \* path -> the (stats, graph) the last finished pickle.dump wrote
    d,              \* the PromDumpFile the main thread holds, None before the first
    pc,             \* where the main thread is inside d.write()
    exc,            \* the main thread's last call: its name, path and exception
    out,            \* what the last report wrote to its stream
    opened,         \* the paths the main thread's last call opened for reading
    log,            \* the handler's last log: the signal, the exception logged
    raised          \* the exception that left the last handler, "none" if it returned

vars == << now, heap, has_get_stats, disp, lastcall, fs, stored, d, pc, exc, out, opened,
           log, raised >>

\* the dump object the main thread holds
D == Get(d)
Result(op, path, e) == [op |-> op, path |-> path, exc |-> e]

(***************************************************************************)
(* Module-level helpers of prom.                                           *)
(***************************************************************************)
get_process_info == [ts |-> now, pid |-> Pid, name |-> Argv0]

\* template % info: the conversions a mapping key supplies; KeyError otherwise
RECURSIVE Format(_, _)
Format(template, info) ==
    IF template = << >> THEN [exc |-> "none", name |-> << >>]
    ELSE LET part == Head(template)
             rest == Format(Tail(template), info)
             conv == CASE part = "%(name)s" -> <<info.name>>
                       [] part = "%(pid)i" -> <<ToString(info.pid)>>
                       [] part = "%(ts)s" -> <<ToString(info.ts)>>
                       [] part = "%(host)s" -> << >>
                       [] OTHER -> <<part>>
         IN IF part = "%(host)s" \/ rest.exc # "none"
            THEN [exc |-> "KeyError", name |-> << >>]
            ELSE [exc |-> "none", name |-> conv \o rest.name]

pathjoin(dir, name) == <<dir>> \o name
pathexists(files, path) == path \in DOMAIN files

\* the exceptions of the model, all of them subclasses of Exception
ExceptionClasses == {"AssertionError", "KeyError", "Exception", "IOError", "UnpicklingError",
                     "ValueError"}

\* PromDump(path, name_template)
PromDump(path, name_template) == [path |-> path, name_template |-> name_template]
Triggers == {PromDump(PATH_DEFAULT, t) : t \in Templates}

\* PromDumpFile(path)
PromDumpFile(path) == [path |-> path, stats |-> None, graph |-> None]

\* obj_dump(obj): str(obj), which runs the object's own __str__
obj_dump(obj) == [exc |-> IF obj.raises THEN "Exception" ELSE "none", str |-> obj.desc]

\* d[k] = v on an insertion-ordered dict
DictSet(dict, k, v) ==
    IF \E i \in 1..Len(dict) : dict[i].id = k
    THEN [i \in 1..Len(dict) |-> IF dict[i].id = k THEN [id |-> k, node |-> v] ELSE dict[i]]
    ELSE Append(dict, [id |-> k, node |-> v])

RECURSIVE Walk(_, _)
\* the loop of gather over gc.get_objects(): the graph so far, and the exception
\* that ends the loop early
Walk(objs, graph) ==
    IF objs = << >> THEN [graph |-> graph, exc |-> "none"]
    ELSE LET obj == Head(objs)
             s == obj_dump(obj)
             node == << s.str, obj.size, obj.referents, obj.referrers >>
         IN IF s.exc # "none" THEN [graph |-> graph, exc |-> s.exc]
            ELSE Walk(Tail(objs), DictSet(graph, obj.id, node))

\* a gather that assigns the graph only when the walk has finished
gather_Atomic(o) ==
    LET stats == IF has_get_stats THEN Some(GcStats(heap)) ELSE o.stats
        w == Walk(Heaps[heap], << >>)
    IN [obj |-> [o EXCEPT !.stats = stats,
                          !.graph = IF w.exc = "none" THEN Some(w.graph) ELSE o.graph],
        exc |-> w.exc]

\* a gather that needs gc.get_stats
gather_NeedsStats(o) ==
    IF ~has_get_stats THEN [obj |-> o, exc |-> "AttributeError"]
    ELSE LET w == Walk(Heaps[heap], << >>)
         IN [obj |-> [o EXCEPT !.stats = Some(GcStats(heap)), !.graph = Some(w.graph)],
             exc |-> w.exc]

\* PromDumpFile.gather on dump object o: the object afterwards, and the exception
gather(o) ==
    LET stats == IF has_get_stats THEN Some(GcStats(heap)) ELSE o.stats
        w == Walk(Heaps[heap], << >>)
    IN [obj |-> [o EXCEPT !.stats = stats, !.graph = Some(w.graph)], exc |-> w.exc]

\* open(path, 'wb'): the file is created, or truncated, and holds nothing yet
open_wb(files, path) ==
    [p \in DOMAIN files \cup {path} |-> IF p = path THEN << >> ELSE files[p]]
\* pickle.dump((stats, graph), f) and the close that ends the with block
pickle_dump(files, o) == [files EXCEPT ![o.path] = Dumps(o.stats, o.graph)]

\* PromDumpFile.write on dump object o, run without interruption
write(o, files) ==
    IF pathexists(files, o.path)
    THEN [obj |-> o, fs |-> files, exc |-> "AssertionError"]
    ELSE LET g == IF o.graph = None THEN gather(o) ELSE [obj |-> o, exc |-> "none"]
         IN IF g.exc # "none" THEN [obj |-> g.obj, fs |-> files, exc |-> g.exc]
            ELSE [obj |-> g.obj, fs |-> pickle_dump(open_wb(files, o.path), g.obj),
                  exc |-> "none"]

\* PromDump.dump of trigger t, run without interruption
dump(t, files) ==
    LET info == get_process_info
        f == Format(t.name_template, info)
        o == PromDumpFile(pathjoin(t.path, f.name))
    IN IF f.exc # "none" THEN [obj |-> o, fs |-> files, exc |-> f.exc]
       ELSE write(o, files)

\* a handler without the try/except around dump
handler_NoExcept(t, sig, files) ==
    LET r == dump(t, files)
    IN [obj |-> r.obj, fs |-> r.fs, log |-> [sig |-> sig, exc |-> "none"], raised |-> r.exc]

\* PromDump._handler: what it leaves in the file system, what it logs, and the
\* exception that leaves it ("none": it returns to the interrupted program)
handler(t, sig, files) ==
    LET r == dump(t, files)
    IN [obj |-> r.obj, fs |-> r.fs, log |-> [sig |-> sig, exc |-> r.exc],
        raised |-> IF r.exc \in ExceptionClasses THEN "none" ELSE r.exc]

\* an install that unbinds the trigger from the signals it was bound to
PromDump_install_Exclusive(t, sig, table) ==
    [s \in DOMAIN table |->
        IF s = sig THEN Some(t) ELSE IF table[s] = Some(t) THEN SIG_DFL ELSE table[s]]
\* PromDump.install: signal.signal(sig, self._handler)
PromDump_install(t, sig, table) == [table EXCEPT ![sig] = Some(t)]
\* install(sig, **kwargs)
install(sig, path, name_template, table) ==
    PromDump_install(PromDump(path, name_template), sig, table)
\* an uninstall that leaves the handler bound
uninstall_Noop(sig, table) == table
\* uninstall(sig): signal.signal(sig, signal.SIG_DFL)
uninstall(sig, table) == [table EXCEPT ![sig] = SIG_DFL]

\* One f.write of report: the format string and what it is applied to
ZeroGen == [collections |-> 0, collected |-> 0, uncollectable |-> 0]
Line(fmt, n, s, rec) == [fmt |-> fmt, n |-> n, s |-> s, rec |-> rec]
Text(fmt) == Line(fmt, 0, "", ZeroGen)

RECURSIVE Rows(_, _, _)
\* the loop of report over enumerate(self.graph.items())
Rows(items, i, written) ==
    IF items = << >> THEN [out |-> written, exc |-> "none"]
    ELSE LET w == IF i % 100 = 0 THEN Append(written, Text("ID\tObject\n")) ELSE written
             id == Head(items).id
             node == Head(items).node
         IN \* obj, referents, referrers = node
            IF Len(node) # 3 THEN [out |-> w, exc |-> "ValueError"]
            ELSE Rows(Tail(items), i + 1, Append(w, Line("%i\t%s\n", id, node[1], ZeroGen)))

\* a report without its assert: it writes until it needs the graph's items
report_NoAssert(o) ==
    LET st == Get(o.stats)
        head == IF o.stats # None
                THEN << Text("Collection statitstics\n") >>
                     \o [i \in 1..Len(st) |-> Line("%i: %s\n", i - 1, "", st[i])]
                     \o << Text("\n") >>
                ELSE << >>
    IN IF o.graph = None
       THEN [out |-> Append(head, Text("Object graph\n")), exc |-> "AttributeError"]
       ELSE Rows(Get(o.graph), 0, Append(head, Text("Object graph\n")))

\* PromDumpFile.report on dump object o: what it writes, and the exception
report(o) ==
    IF o.graph = None THEN [out |-> << >>, exc |-> "AssertionError"]
    ELSE LET st == Get(o.stats)
             head == IF o.stats # None
                     THEN << Text("Collection statitstics\n") >>
                          \o [i \in 1..Len(st) |-> Line("%i: %s\n", i - 1, "", st[i])]
                          \o << Text("\n") >>
                     ELSE << >>
         IN Rows(Get(o.graph), 0, Append(head, Text("Object graph\n")))

\* a load that keeps the graph and forgets the stats
load_DropsStats(o, files) ==
    IF ~pathexists(files, o.path) THEN [obj |-> o, exc |-> "IOError", opened |-> {}]
    ELSE IF IsCorrupt(files[o.path])
         THEN [obj |-> o, exc |-> "UnpicklingError", opened |-> {o.path}]
    ELSE [obj |-> [o EXCEPT !.graph = Loads(files[o.path])[2]], exc |-> "none",
          opened |-> {o.path}]

\* PromDumpFile.load on dump object o
load(o, files) ==
    IF ~pathexists(files, o.path) THEN [obj |-> o, exc |-> "IOError", opened |-> {}]
    ELSE IF IsCorrupt(files[o.path])
         THEN [obj |-> o, exc |-> "UnpicklingError", opened |-> {o.path}]
    ELSE LET v == Loads(files[o.path])
         IN [obj |-> [o EXCEPT !.stats = v[1], !.graph = v[2]], exc |-> "none",
             opened |-> {o.path}]

\* a command that does not validate <path>
main_NoSchema(path, files) ==
    LET r == report(PromDumpFile(path))
    IN [out |-> r.out, exc |-> r.exc, opened |-> {}]

\* main(argv) with <path> = path: the Schema check, then report() on a new
\* PromDumpFile; no statement of main opens the file
main(path, files) ==
    IF ~pathexists(files, path) THEN [out |-> << >>, exc |-> "DocoptExit", opened |-> {}]
    ELSE LET r == report(PromDumpFile(path))
         IN [out |-> r.out, exc |-> r.exc, opened |-> {}]

(***************************************************************************)
(* The state machine.                                                      *)
(***************************************************************************)
\* PromDump(): the trigger with the default directory and template
DefaultDump == PromDump(PATH_DEFAULT, FILE_NAME_TEMPLATE)
\* the file DefaultDump names at time 0
FirstPath ==
    pathjoin(PATH_DEFAULT,
             Format(FILE_NAME_TEMPLATE, [ts |-> 0, pid |-> Pid, name |-> Argv0]).name)
\* the paths the main thread names itself
UserPaths == {FirstPath, pathjoin(PATH_DEFAULT, <<"other.prom">>)}

Put(f, k, v) == [x \in DOMAIN f \cup {k} |-> IF x = k THEN v ELSE f[x]]

Init ==
    /\ now = 0
    /\ heap = 1
    /\ has_get_stats \in BOOLEAN
    /\ disp = [s \in Signals |-> SIG_DFL]
    /\ lastcall = [s \in Signals |-> "none"]
    /\ fs = << >>
    /\ stored = << >>
    /\ d = None
    /\ pc = "idle"
    /\ exc = Result("none", << >>, "none")
    /\ out = << >>
    /\ opened = {}
    /\ log = [sig |-> 0, exc |-> "none"]
    /\ raised = "none"

\* the clock advances
Tick ==
    /\ now < MaxClock
    /\ now' = now + 1
    /\ UNCHANGED << heap, has_get_stats, disp, lastcall, fs, stored, d, pc, exc, out, opened, log,
                    raised >>

\* the program allocates and frees objects
Mutate(h) ==
    /\ h # heap
    /\ heap' = h
    /\ UNCHANGED << now, has_get_stats, disp, lastcall, fs, stored, d, pc, exc, out, opened, log,
                    raised >>

Install(sig, t) ==
    /\ disp' = install(sig, t.path, t.name_template, disp)
    /\ lastcall' = [lastcall EXCEPT ![sig] = "install"]
    /\ UNCHANGED << now, heap, has_get_stats, fs, stored, d, pc, exc, out, opened, log, raised >>

Uninstall(sig) ==
    /\ disp' = uninstall(sig, disp)
    /\ lastcall' = [lastcall EXCEPT ![sig] = "uninstall"]
    /\ UNCHANGED << now, heap, has_get_stats, fs, stored, d, pc, exc, out, opened, log, raised >>

\* The signal arrives and Python runs the handler bound to it, wherever the
\* main thread is.
Deliver(sig) ==
    /\ disp[sig] # SIG_DFL
    /\ LET r == handler(Get(disp[sig]), sig, fs)
       IN /\ fs' = r.fs
          /\ stored' = IF r.log.exc = "none"
                       THEN Put(stored, r.obj.path, << r.obj.stats, r.obj.graph >>)
                       ELSE stored
          /\ log' = r.log
          /\ raised' = r.raised
    /\ UNCHANGED << now, heap, has_get_stats, disp, lastcall, d, pc, exc, out, opened >>

\* d = PromDumpFile(path)
New(path) ==
    /\ pc = "idle"
    /\ d' = Some(PromDumpFile(path))
    /\ exc' = Result("new", path, "none")
    /\ out' = << >>
    /\ opened' = {}
    /\ UNCHANGED << now, heap, has_get_stats, disp, lastcall, fs, stored, pc, log, raised >>

\* a write without its assert
WriteBegin_NoAssert(o, op) ==
    /\ pc' = IF o.graph = None THEN "gather" ELSE "open"
    /\ exc' = Result(op, o.path, "running")
    /\ out' = << >>
    /\ opened' = {}

\* a write that never gathers
WriteBegin_NoGather(o, op) ==
    /\ IF pathexists(fs, o.path)
       THEN /\ pc' = "idle"
            /\ exc' = Result(op, o.path, "AssertionError")
       ELSE /\ pc' = "open"
            /\ exc' = Result(op, o.path, "running")
    /\ out' = << >>
    /\ opened' = {}

\* a write that decides to gather before it looks at the path
WriteBegin_GatherFirst(o, op) ==
    /\ IF o.graph = None
       THEN /\ pc' = "gather"
            /\ exc' = Result(op, o.path, "running")
       ELSE IF pathexists(fs, o.path)
       THEN /\ pc' = "idle"
            /\ exc' = Result(op, o.path, "AssertionError")
       ELSE /\ pc' = "open"
            /\ exc' = Result(op, o.path, "running")
    /\ out' = << >>
    /\ opened' = {}

\* The first statements of write on dump object o, called as op: the assert,
\* and whether to gather
WriteBegin(o, op) ==
    /\ IF pathexists(fs, o.path)
       THEN /\ pc' = "idle"
            /\ exc' = Result(op, o.path, "AssertionError")
       ELSE /\ pc' = IF o.graph = None THEN "gather" ELSE "open"
            /\ exc' = Result(op, o.path, "running")
    /\ out' = << >>
    /\ opened' = {}

\* d.write()
WriteCall ==
    /\ pc = "idle"
    /\ d # None
    /\ WriteBegin(D, "write")
    /\ UNCHANGED << now, heap, has_get_stats, disp, lastcall, fs, stored, d, log, raised >>

\* d = PromDump(path, name_template).dump()
DumpCall(t) ==
    /\ pc = "idle"
    /\ LET f == Format(t.name_template, get_process_info)
           o == PromDumpFile(pathjoin(t.path, f.name))
       IN IF f.exc # "none"
          THEN /\ exc' = Result("dump", << >>, f.exc)
               /\ out' = << >>
               /\ opened' = {}
               /\ UNCHANGED << d, pc >>
          ELSE /\ d' = Some(o)
               /\ WriteBegin(o, "dump")
    /\ UNCHANGED << now, heap, has_get_stats, disp, lastcall, fs, stored, log, raised >>

\* write: self.gather()
WriteGather ==
    /\ pc = "gather"
    /\ LET g == gather(D)
       IN /\ d' = Some(g.obj)
          /\ IF g.exc # "none"
             THEN pc' = "idle" /\ exc' = [exc EXCEPT !.exc = g.exc]
             ELSE pc' = "open" /\ exc' = exc
    /\ UNCHANGED << now, heap, has_get_stats, disp, lastcall, fs, stored, out, opened, log, raised >>

\* write: open(self.path, 'wb')
WriteOpen ==
    /\ pc = "open"
    /\ fs' = open_wb(fs, D.path)
    /\ pc' = "dump"
    /\ UNCHANGED << now, heap, has_get_stats, disp, lastcall, stored, d, exc, out, opened, log, raised >>

\* write: pickle.dump((self.stats, self.graph), f), and write returns
WriteDump ==
    /\ pc = "dump"
    /\ fs' = pickle_dump(fs, D)
    /\ stored' = Put(stored, D.path, << D.stats, D.graph >>)
    /\ pc' = "idle"
    /\ exc' = [exc EXCEPT !.exc = "none"]
    /\ UNCHANGED << now, heap, has_get_stats, disp, lastcall, d, out, opened, log, raised >>

\* d.gather()
GatherCall ==
    /\ pc = "idle"
    /\ d # None
    /\ LET g == gather(D)
       IN d' = Some(g.obj) /\ exc' = Result("gather", D.path, g.exc)
    /\ out' = << >>
    /\ opened' = {}
    /\ UNCHANGED << now, heap, has_get_stats, disp, lastcall, fs, stored, pc, log, raised >>

\* d.load()
LoadCall ==
    /\ pc = "idle"
    /\ d # None
    /\ LET l == load(D, fs)
       IN d' = Some(l.obj) /\ exc' = Result("load", D.path, l.exc) /\ opened' = l.opened
    /\ out' = << >>
    /\ UNCHANGED << now, heap, has_get_stats, disp, lastcall, fs, stored, pc, log, raised >>

\* a report that drops the stats it has printed
ReportCall_DropsStats ==
    /\ pc = "idle"
    /\ d # None
    /\ LET r == report(D)
       IN out' = r.out /\ exc' = Result("report", D.path, r.exc)
    /\ opened' = {}
    /\ d' = Some([D EXCEPT !.stats = None])
    /\ UNCHANGED << now, heap, has_get_stats, disp, lastcall, fs, stored, pc, log, raised >>

\* d.report()
ReportCall ==
    /\ pc = "idle"
    /\ d # None
    /\ LET r == report(D)
       IN out' = r.out /\ exc' = Result("report", D.path, r.exc)
    /\ opened' = {}
    /\ UNCHANGED << now, heap, has_get_stats, disp, lastcall, fs, stored, d, pc, log, raised >>

\* python -m prom <path>
MainCall(path) ==
    /\ pc = "idle"
    /\ LET r == main(path, fs)
       IN out' = r.out /\ exc' = Result("main", path, r.exc) /\ opened' = r.opened
    /\ UNCHANGED << now, heap, has_get_stats, disp, lastcall, fs, stored, d, pc, log, raised >>

(***************************************************************************)
(* Three programs use the library, and each is a specification:           *)
(*   SpecTrigger  an application that installs and uninstalls triggers and *)
(*                is sent signals (tests.py, PromInstallTestCase);         *)
(*   SpecStore    an application with the default trigger that also dumps, *)
(*                writes and loads on its main thread (tests.py,           *)
(*                PromDumpFileTestCase), so the handler interrupts write;  *)
(*                all of it within one reading of the clock, so that the   *)
(*                trigger and the main thread name the same file;          *)
(*   SpecReport   the offline use: gather or load a dump, report it, and   *)
(*                the command line.                                        *)
(* Spec is all of them at once.                                            *)
(***************************************************************************)
NextTrigger ==
    \/ Tick
    \/ \E h \in HeapIds : Mutate(h)
    \/ \E sig \in Signals, t \in Triggers : Install(sig, t)
    \/ \E sig \in Signals : Uninstall(sig)
    \/ \E sig \in Signals : Deliver(sig)

NextStore ==
    \/ \E h \in HeapIds : Mutate(h)
    \/ Install(SIG_DEFAULT, DefaultDump)
    \/ Uninstall(SIG_DEFAULT)
    \/ Deliver(SIG_DEFAULT)
    \/ \E path \in UserPaths : New(path)
    \/ WriteCall
    \/ DumpCall(DefaultDump)
    \/ WriteGather
    \/ WriteOpen
    \/ WriteDump
    \/ GatherCall
    \/ LoadCall

NextReport ==
    \/ \E h \in HeapIds : Mutate(h)
    \/ \E path \in UserPaths : New(path)
    \/ WriteCall
    \/ WriteGather
    \/ WriteOpen
    \/ WriteDump
    \/ GatherCall
    \/ LoadCall
    \/ ReportCall
    \/ \E path \in UserPaths : MainCall(path)

Next ==
    \/ NextTrigger
    \/ NextStore
    \/ NextReport
    \/ \E t \in Triggers : DumpCall(t)

SpecTrigger == Init /\ [][NextTrigger]_vars
SpecStore == Init /\ [][NextStore]_vars
SpecReport == Init /\ [][NextReport]_vars
Spec == Init /\ [][Next]_vars

(***************************************************************************)
(* Which thread took a step.  Every action that is not the main thread's   *)
(* leaves pc, d, exc and out alone, and the main thread leaves the clock,  *)
(* the heap, the signal table and the handler's log alone.                 *)
(***************************************************************************)
MainStep ==
    /\ UNCHANGED << now, heap, disp, lastcall, log, raised >>
    /\ << pc, d, exc, out >>' # << pc, d, exc, out >>
\* the main thread called write or dump, whose first statement is write's assert
WriteBeginStep == MainStep /\ pc = "idle" /\ exc'.op \in {"write", "dump"}
\* a signal was delivered and its handler ran
DeliverStep ==
    /\ UNCHANGED << now, heap, disp, lastcall, pc, d, exc, out >>
    /\ << fs, log >>' # << fs, log >>

Complete(path) == path \in DOMAIN fs /\ ~IsCorrupt(fs[path])
\* the node a dict holds for identity i
NodeOfId(graph, i) == graph[CHOOSE k \in 1..Len(graph) : graph[k].id = i].node
Ids(graph) == {graph[k].id : k \in 1..Len(graph)}
SameGraph(g, h) ==
    /\ Ids(g) = Ids(h)
    /\ \A i \in Ids(g) : NodeOfId(g, i) = NodeOfId(h, i)
\* an edge of the graph names an identity that has no node
Dangling(graph) ==
    \E k \in 1..Len(graph) :
        \E j \in 1..Len(graph[k].node[3]) : graph[k].node[3][j] \notin Ids(graph)
Range(seq) == {seq[k] : k \in 1..Len(seq)}

(***************************************************************************)
(* The claims.                                                             *)
(***************************************************************************)

\* C1: a write (or dump) whose path already holds a file fails with the
\* AssertionError of write's assert, surfaced to the caller, and leaves every
\* file as it was: the file still holds what the first write wrote.
C1_NonOverwrite ==
    [][ (WriteBeginStep /\ exc'.path \in DOMAIN fs)
            => /\ exc'.exc = "AssertionError"
               /\ pc' = "idle"
               /\ fs' = fs ]_vars
\* C1 witness: the second write on a path that a finished write created has failed
C1_Witness ==
    /\ exc.op = "write"
    /\ exc.exc = "AssertionError"
    /\ exc.path \in DOMAIN stored
    /\ fs[exc.path] = Dumps(stored[exc.path][1], stored[exc.path][2])

\* C2: a load that succeeds leaves in the dump object the stats and the graph
\* (same identities, same node for each) that the write of that file serialized.
C2_RoundTrip ==
    [][ (MainStep /\ exc'.op = "load" /\ exc'.exc = "none")
            => /\ exc'.path \in DOMAIN stored
               /\ Get(d').stats = stored[exc'.path][1]
               /\ Get(d').graph # None
               /\ SameGraph(Get(Get(d').graph), Get(stored[exc'.path][2])) ]_vars
\* C2 witness: a graph with an edge to an identity that is no key was loaded
\* into a dump object that held no snapshot, with its stats
C2_Witness ==
    /\ exc.op = "load"
    /\ exc.exc = "none"
    /\ d # None
    /\ D.stats # None
    /\ D.graph # None
    /\ Dangling(Get(D.graph))
    /\ << D.stats, D.graph >> = stored[D.path]

\* C3: no exception leaves the handler: whatever dump raised is logged and the
\* handler returns to the interrupted program.
C3_HandlerSwallows == raised = "none"
\* C3 witness: the handler logged the failure of write's assert and returned
C3_Witness == log.exc = "AssertionError" /\ raised = "none"
\* the name derivation and gather fail inside the handler too
C3_WitnessKeyError == log.exc = "KeyError" /\ raised = "none"
C3_WitnessGather == log.exc = "Exception" /\ raised = "none"

\* C4 (as claimed): a report on a dump object whose graph is populated raises
\* nothing and writes 'Object graph' and one id<TAB>description row per node.
C4_ReportRendersGraph ==
    (exc.op = "report" /\ d # None /\ D.graph # None)
        => /\ exc.exc = "none"
           /\ Text("Object graph\n") \in Range(out)
           /\ \A k \in 1..Len(Get(D.graph)) :
                Line("%i\t%s\n", Get(D.graph)[k].id, Get(D.graph)[k].node[1], ZeroGen)
                    \in Range(out)

\* C5 (as claimed): the command, given the path of a file that holds a
\* snapshot, raises nothing and writes the report of that snapshot.
C5_CommandReportsFile ==
    [][ (MainStep /\ exc'.op = "main" /\ Complete(exc'.path))
            => /\ exc'.exc = "none"
               /\ Text("Object graph\n") \in Range(out') ]_vars

\* C6: while install was the last of install/uninstall called for a signal, the
\* signal's disposition is the handler of a PromDump; once uninstall was, it is
\* SIG_DFL.
C6_SignalLifecycle ==
    \A sig \in Signals :
        /\ lastcall[sig] = "install" => (disp[sig] # SIG_DFL /\ Get(disp[sig]) \in Triggers)
        /\ lastcall[sig] = "uninstall" => disp[sig] = SIG_DFL
\* C6 witness: one signal is installed, the other was installed and uninstalled
C6_Witness ==
    /\ lastcall[SIGUSR1] = "install" /\ disp[SIGUSR1] = Some(DefaultDump)
    /\ lastcall[SIGUSR2] = "uninstall" /\ disp[SIGUSR2] = SIG_DFL
    /\ log.sig = SIGUSR2

\* C7 (as claimed): a delivery whose trigger's template gives a name creates
\* exactly the file of that name, holding one snapshot, when no such file
\* exists; when one exists, the write fails its assert and no file changes.
C7_OneFilePerDelivery ==
    [][ DeliverStep =>
          LET t == Get(disp[log'.sig])
              f == Format(t.name_template, get_process_info)
              path == pathjoin(t.path, f.name)
          IN f.exc = "none" =>
               IF path \in DOMAIN fs
               THEN log'.exc = "AssertionError" /\ fs' = fs
               ELSE /\ DOMAIN fs' = DOMAIN fs \cup {path}
                    /\ ~IsCorrupt(fs'[path])
                    /\ \A p \in DOMAIN fs : fs'[p] = fs[p] ]_vars

\* C8: write gathers exactly when the graph is None, serializes only a
\* populated graph and only after gather has returned, and when it returns
\* normally the graph is populated and the file at the path holds (stats, graph).
C8_CaptureOnWrite ==
    [][ /\ (pc = "idle" /\ pc' = "gather") => Get(d').graph = None
        /\ (pc = "idle" /\ pc' = "open") => (Get(d').graph # None /\ (d' = d \/ exc'.op = "dump"))
        /\ (pc = "gather" /\ pc' = "open")
              => /\ Get(d').graph # None
                 /\ Len(Get(Get(d').graph)) = Len(Heaps[heap])
        /\ (pc = "gather" /\ pc' = "idle") => (exc'.exc # "none" /\ fs' = fs)
        /\ pc \in {"open", "dump"} => (d' = d /\ D.graph # None)
        /\ (pc = "dump" /\ pc' = "idle")
              => /\ exc'.exc = "none"
                 /\ D.path \in DOMAIN fs'
                 /\ fs'[D.path] = Dumps(D.stats, D.graph)
        /\ (DeliverStep /\ log'.exc = "none")
              => \E p \in DOMAIN fs' \ DOMAIN fs :
                    /\ ~IsCorrupt(fs'[p])
                    /\ Len(Get(Loads(fs'[p])[2])) = Len(Heaps[heap]) ]_vars
\* C8 witness: a write on a dump object without a graph has returned normally
C8_Witness ==
    /\ pc = "idle"
    /\ exc.op = "write"
    /\ exc.exc = "none"
    /\ D.graph # None
    /\ D.path \in DOMAIN fs
    /\ stored[D.path] = << D.stats, D.graph >>

\* C9 (as claimed): every file that exists holds one complete serialized
\* snapshot.
C9_AllOrNothing == \A p \in DOMAIN fs : ~IsCorrupt(fs[p])

\* C10 (as claimed): a file that holds a complete snapshot is never truncated
\* or replaced.
C10_NeverOverwrites ==
    [][ \A p \in DOMAIN fs :
            ~IsCorrupt(fs[p]) => (p \in DOMAIN fs' /\ fs'[p] = fs[p]) ]_vars

\* every object of the heap gather walked has a node in the graph
AllVisited(graph, h) == Ids(graph) = {Heaps[h][k].id : k \in 1..Len(Heaps[h])}
\* an object of the heap whose description cannot be computed
Unrenderable(h) == \E k \in 1..Len(Heaps[h]) : Heaps[h][k].raises

\* C11 (as claimed): a gather never raises, and the graph it leaves has a node
\* for every object of the heap, the ones whose description raises included.
C11_GatherToleratesRenderFailure ==
    [][ (MainStep /\ exc'.op = "gather")
            => /\ exc'.exc = "none"
               /\ Get(d').graph # None
               /\ AllVisited(Get(Get(d').graph), heap) ]_vars

\* C12: a report on a dump object whose graph was never populated raises the
\* AssertionError of report's assert and writes nothing to the stream.
C12_ReportNeedsGraph ==
    [][ (MainStep /\ exc'.op = "report" /\ D.graph = None)
            => /\ exc'.exc = "AssertionError"
               /\ out' = << >> ]_vars
\* C12 witness: a report on a new dump object has failed
C12_Witness ==
    /\ exc.op = "report"
    /\ exc.exc = "AssertionError"
    /\ D.graph = None
    /\ D.stats = None
    /\ out = << >>

\* the lines of a stream that belong to the statistics section
StatsLines(stream) ==
    {k \in 1..Len(stream) : stream[k].fmt \in {"Collection statitstics\n", "%i: %s\n", "\n"}}
\* the line of a stream that opens the graph section
GraphHeaderAt(stream) == {k \in 1..Len(stream) : stream[k] = Text("Object graph\n")}
\* the graph section of a stream lists every node of the graph
GraphSection(stream, graph) ==
    /\ GraphHeaderAt(stream) # {}
    /\ \A k \in 1..Len(graph) :
          \E j \in 1..Len(stream) :
             /\ stream[j] = Line("%i\t%s\n", graph[k].id, graph[k].node[1], ZeroGen)
             /\ \A h \in GraphHeaderAt(stream) : h < j
\* the statistics section of a stream: the header, one line per generation in
\* order, a blank line, and all of it before the graph section
StatsSection(stream, st) ==
    /\ Len(stream) >= Len(st) + 2
    /\ stream[1] = Text("Collection statitstics\n")
    /\ \A g \in 1..Len(st) : stream[1 + g] = Line("%i: %s\n", g - 1, "", st[g])
    /\ stream[Len(st) + 2] = Text("\n")
    /\ StatsLines(stream) = 1..(Len(st) + 2)
    /\ \A h \in GraphHeaderAt(stream) : h > Len(st) + 2

\* C13 (as claimed): a report on a populated dump object returns normally; with
\* stats absent it writes no line of the statistics section and still the graph
\* section; with stats present it writes the statistics header, one line per
\* generation in order and a blank line, all before the graph section.
C13_StatsOptionalReport ==
    (exc.op = "report" /\ d # None /\ D.graph # None)
        => /\ exc.exc = "none"
           /\ GraphSection(out, Get(D.graph))
           /\ D.stats = None => StatsLines(out) = {}
           /\ D.stats # None => StatsSection(out, Get(D.stats))
\* what of C13 the code does: the statistics section is as claimed and the
\* line that opens the graph section follows it
C13_StatsSectionWritten ==
    (exc.op = "report" /\ d # None /\ D.graph # None)
        => /\ GraphHeaderAt(out) # {}
           /\ D.stats = None => StatsLines(out) = {}
           /\ D.stats # None => StatsSection(out, Get(D.stats))

\* C14: the command, given a path that names no file, raises DocoptExit (the
\* usage message, a non-zero exit status), writes no report, opens no file for
\* reading and creates none.
C14_UsageErrorOnMissingPath ==
    [][ (MainStep /\ exc'.op = "main" /\ exc'.path \notin DOMAIN fs)
            => /\ exc'.exc = "DocoptExit"
               /\ out' = << >>
               /\ opened' = {}
               /\ fs' = fs ]_vars
\* C14 witness: the command was given a path that names no file while another
\* path names one
C14_Witness ==
    /\ exc.op = "main"
    /\ exc.exc = "DocoptExit"
    /\ exc.path \notin DOMAIN fs
    /\ DOMAIN fs # {}
    /\ opened = {}

\* C16: a report, whether it returns or raises, leaves the dump object's path,
\* stats and graph as they were, and leaves every file as it was.
C16_ReportReadOnly ==
    [][ (MainStep /\ exc'.op = "report") => (d' = d /\ fs' = fs) ]_vars
\* C16 witness: a report ran on a dump object that has stats and a graph
C16_Witness ==
    /\ exc.op = "report"
    /\ exc.exc # "AssertionError"
    /\ D.stats # None
    /\ D.graph # None
    /\ out # << >>

\* the main thread ran gather, called by itself or from inside write
GatherStep == MainStep /\ pc' # "gather" /\ (pc = "gather" \/ exc'.op = "gather")
\* gather returned normally: write goes on to open the file
GatherReturned == IF pc = "gather" THEN pc' = "open" ELSE exc'.exc = "none"

RegistrationStep(sig) == disp'[sig] # disp[sig] \/ lastcall'[sig] # lastcall[sig]

\* C17: an install or uninstall for one signal leaves the disposition of every
\* other signal as it was, so a signal installed earlier stays bound to its
\* trigger's handler when the trigger is installed for a second signal, both
\* are then bound, and only a signal that is bound has its handler run.
C17_SecondInstallKeepsFirst ==
    [][ \A a \in Signals : \A b \in Signals \ {a} :
          /\ (lastcall[a] = "install" /\ RegistrationStep(b))
                => (disp'[a] = disp[a] /\ disp'[a] # SIG_DFL)
          /\ (lastcall'[a] = "install" /\ lastcall'[b] = "install")
                => (disp'[a] # SIG_DFL /\ disp'[b] # SIG_DFL)
          /\ (DeliverStep /\ log'.sig = a /\ log' # log) => disp[a] # SIG_DFL ]_vars
\* C17 witness: the same trigger is bound to both signals and a delivery of
\* the first has dumped
C17_Witness ==
    /\ lastcall[SIGUSR1] = "install" /\ lastcall[SIGUSR2] = "install"
    /\ disp[SIGUSR1] = Some(DefaultDump)
    /\ disp[SIGUSR2] = Some(DefaultDump)
    /\ log.sig = SIGUSR1
    /\ log.exc = "none"
    /\ DOMAIN fs # {}

\* C18: a write (or dump) whose path already holds a file ends at its assert:
\* gather is not run, the dump object keeps the stats and the graph it had (a
\* new dump object keeps None for both) and no file changes.
C18_RejectedWriteHasNoEffect ==
    [][ (WriteBeginStep /\ exc'.path \in DOMAIN fs)
            => /\ pc' # "gather"
               /\ exc'.op = "write" => d' = d
               /\ exc'.op = "dump" => d' = Some(PromDumpFile(exc'.path))
               /\ fs' = fs
               /\ stored' = stored ]_vars
\* C18 witness: a write on a dump object without a graph was rejected, and the
\* graph is still unset
C18_Witness ==
    /\ pc = "idle"
    /\ exc.op = "write"
    /\ exc.exc = "AssertionError"
    /\ D.path \in DOMAIN fs
    /\ D.stats = None
    /\ D.graph = None

\* the identities gather visits on heap h before the first object whose
\* description raises
VisitedBeforeFailure(h) ==
    LET k == CHOOSE i \in 1..Len(Heaps[h]) :
                 Heaps[h][i].raises /\ \A j \in 1..(i - 1) : ~Heaps[h][j].raises
    IN {Heaps[h][j].id : j \in 1..(k - 1)}

\* C19: a gather that raises leaves a graph that is not None and holds the
\* nodes of the objects visited before the failure and no others; a later
\* write on that object, its path free, goes to open the file without
\* gathering, and the file it writes holds the object's stats and graph.
C19_PartialGraphPublished ==
    [][ /\ (GatherStep /\ ~GatherReturned)
            => /\ Get(d').graph # None
               /\ Ids(Get(Get(d').graph)) = VisitedBeforeFailure(heap)
        /\ (WriteBeginStep /\ exc'.op = "write" /\ D.graph # None
                /\ exc'.path \notin DOMAIN fs)
            => (pc' = "open" /\ d' = d)
        /\ (MainStep /\ pc = "dump" /\ pc' = "idle")
            => /\ d' = d
               /\ fs'[D.path] = Dumps(D.stats, D.graph)
               /\ stored'[D.path] = << D.stats, D.graph >> ]_vars
\* C19 witness: a write has persisted the partial graph that a failed gather
\* left in the dump object
C19_Witness ==
    /\ pc = "idle"
    /\ exc.op = "write"
    /\ exc.exc = "none"
    /\ D.graph # None
    /\ \E h \in HeapIds : Unrenderable(h) /\ Ids(Get(D.graph)) = VisitedBeforeFailure(h)
    /\ D.path \in DOMAIN fs
    /\ ~IsCorrupt(fs[D.path])
    /\ Loads(fs[D.path])[2] = D.graph

=============================================================================
